---- MODULE Spec2Model ----
(***************************************************************************)
(* syncACLentries.py: consolidate the entries of one named ACL over a set  *)
(* of Fastly services (getACLentries) and write the consolidated entries   *)
(* back to each service (updateACLentries).                                *)
(*                                                                         *)
(* Spec      the module's functions, called in any order on any service;   *)
(*           a failed check_r or a missing active version exits the        *)
(*           process with status 1.                                        *)
(* MainSpec  the script's __main__ block as it is written.                 *)
(***************************************************************************)
EXTENDS Integers, Sequences, FiniteSets, TLC

\* ----------------------------------------------------------------- bounds
MaxLive == 2   \* entries an ACL holds on the server before the run
MaxArgs == 3   \* service IDs given with --svcid

Services == {"A", "B"}
IPs == {"10.0.0.1", "10.0.0.2"}

\* ------------------------------------------------------------ JSON values
\* A JSON value as Python sees it: None, an int or a str.
Null == [kind |-> "null", int |-> 0, str |-> ""]
Num(n) == [kind |-> "int", int |-> n, str |-> ""]
Str(s) == [kind |-> "str", int |-> 0, str |-> s]

\* Python's `not v`
Falsy(v) ==
  \/ v.kind = "null"
  \/ v.kind = "int" /\ v.int = 0
  \/ v.kind = "str" /\ v.str = ""

\* The (subnet, comment) pairs an entry on the server may hold: the API
\* answers a subnet as a number or null, a comment as a string or null.
RawValues ==
  { <<Null, Null>>,
    <<Num(24), Str("vpn")>>,
    <<Num(16), Str("old")>>,
    <<Num(32), Str("None")>> }

VARIABLES
  live,      \* server: service -> its ACL's entries, in order of creation
  entries,   \* the consolidated dictionary, in insertion order
  payload,   \* the payload built by the last updateACLentries
  calls,     \* the API calls the last function call issued, in order
  op,        \* the last function call
  status,    \* "running", or the process's exit status
  args,      \* __main__: args.svcid
  pc,        \* __main__: position in the script
  i          \* __main__: index of the running for loop

vars == <<live, entries, payload, calls, op, status, args, pc, i>>

\* ------------------------------------------------------------- dictionary
Keys(d) == {d[k].ip : k \in DOMAIN d}
IndexOf(d, ip) == CHOOSE k \in DOMAIN d : d[k].ip = ip
Get(d, ip) == d[IndexOf(d, ip)]
IPsOf(json) == {json[k].ip : k \in DOMAIN json}

\* ---------------------------------------------------------- getACLentries
\* lines 59-62
Normalize(acl) ==
  [acl EXCEPT !.subnet = IF Falsy(@) THEN Num(32) ELSE @,
              !.comment = IF Falsy(@) THEN Str("None") ELSE @]

\* Merge with the last value seen winning over a recorded one.
Merge_LastWins(aclENTRIES, acl) ==
  LET n == Normalize(acl)
  IN IF n.ip \in Keys(aclENTRIES)
     THEN [aclENTRIES EXCEPT ![IndexOf(aclENTRIES, n.ip)].subnet = n.subnet,
                             ![IndexOf(aclENTRIES, n.ip)].comment = n.comment]
     ELSE Append(aclENTRIES,
                 [ip |-> n.ip, subnet |-> n.subnet, comment |-> n.comment])

\* Merge that leaves out a new IP whose entry carries no subnet and no comment.
Merge_SkipBare(aclENTRIES, acl) ==
  LET n == Normalize(acl)
  IN IF n.ip \in Keys(aclENTRIES) \/ (Falsy(acl.subnet) /\ Falsy(acl.comment))
     THEN aclENTRIES
     ELSE Append(aclENTRIES,
                 [ip |-> n.ip, subnet |-> n.subnet, comment |-> n.comment])

\* One iteration of the loop of lines 56-79.
Merge(aclENTRIES, acl) ==
  LET n == Normalize(acl)
      aclIP == n.ip
      aclSUBNET == n.subnet
      aclCOMMENT == n.comment
  IN IF aclIP \in Keys(aclENTRIES)
     THEN LET k == IndexOf(aclENTRIES, aclIP)
              cur == aclENTRIES[k]
          IN IF cur.subnet = aclSUBNET /\ cur.comment = aclCOMMENT
             THEN aclENTRIES
             ELSE [aclENTRIES EXCEPT
                     ![k].subnet =
                        IF cur.subnet = Str("None") /\ aclSUBNET # Str("None")
                        THEN aclSUBNET ELSE @,
                     ![k].comment =
                        IF cur.comment = Str("None") /\ aclCOMMENT # Str("None")
                        THEN aclCOMMENT ELSE @]
     ELSE Append(aclENTRIES,
                 [ip |-> aclIP, subnet |-> aclSUBNET, comment |-> aclCOMMENT])

\* The loop of lines 56-79 over r.json().
RECURSIVE MergeAll(_, _)
MergeAll(aclENTRIES, json) ==
  IF json = <<>> THEN aclENTRIES
  ELSE MergeAll(Merge(aclENTRIES, Head(json)), Tail(json))

\* ------------------------------------------------------- updateACLentries
\* lines 95-101: the last entry of an IP wins
Existing(json) ==
  [ip \in IPsOf(json) |->
     LET k == CHOOSE m \in DOMAIN json :
                /\ json[m].ip = ip
                /\ \A q \in DOMAIN json : json[q].ip = ip => q <= m
     IN [id |-> json[k].id, subnet |-> json[k].subnet, comment |-> json[k].comment]]

\* Plan without the skip of lines 107-110.
RECURSIVE Plan_NoSkip(_, _)
Plan_NoSkip(aclENTRIES, existingACLEntries) ==
  IF aclENTRIES = <<>> THEN <<>>
  ELSE LET e == Head(aclENTRIES)
           rest == Plan_NoSkip(Tail(aclENTRIES), existingACLEntries)
       IN IF e.ip \in DOMAIN existingACLEntries
          THEN <<[op |-> "update", ip |-> e.ip, subnet |-> e.subnet,
                  comment |-> e.comment,
                  id |-> existingACLEntries[e.ip].id]>> \o rest
          ELSE <<[op |-> "create", ip |-> e.ip, subnet |-> e.subnet,
                  comment |-> e.comment]>> \o rest

\* Plan that puts each operation in front of the payload.
RECURSIVE Plan_Prepend(_, _)
Plan_Prepend(aclENTRIES, existingACLEntries) ==
  IF aclENTRIES = <<>> THEN <<>>
  ELSE LET e == Head(aclENTRIES)
           rest == Plan_Prepend(Tail(aclENTRIES), existingACLEntries)
       IN IF e.ip \in DOMAIN existingACLEntries
          THEN IF /\ e.subnet = existingACLEntries[e.ip].subnet
                  /\ e.comment = existingACLEntries[e.ip].comment
               THEN rest
               ELSE rest \o <<[op |-> "update", ip |-> e.ip, subnet |-> e.subnet,
                               comment |-> e.comment,
                               id |-> existingACLEntries[e.ip].id]>>
          ELSE rest \o <<[op |-> "create", ip |-> e.ip, subnet |-> e.subnet,
                          comment |-> e.comment]>>

\* Plan whose updates carry acl["id"], the id of the last entry the loop of
\* lines 96-101 read, instead of the id of the entry of the IP.
RECURSIVE Plan_LastId(_, _)
Plan_LastId(aclENTRIES, existingACLEntries) ==
  IF aclENTRIES = <<>> THEN <<>>
  ELSE LET e == Head(aclENTRIES)
           rest == Plan_LastId(Tail(aclENTRIES), existingACLEntries)
           last == CHOOSE m \in {existingACLEntries[x].id : x \in DOMAIN existingACLEntries} :
                     \A x \in DOMAIN existingACLEntries : existingACLEntries[x].id <= m
       IN IF e.ip \in DOMAIN existingACLEntries
          THEN IF /\ e.subnet = existingACLEntries[e.ip].subnet
                  /\ e.comment = existingACLEntries[e.ip].comment
               THEN rest
               ELSE <<[op |-> "update", ip |-> e.ip, subnet |-> e.subnet,
                       comment |-> e.comment, id |-> last]>> \o rest
          ELSE <<[op |-> "create", ip |-> e.ip, subnet |-> e.subnet,
                  comment |-> e.comment]>> \o rest

\* lines 103-120
RECURSIVE Plan(_, _)
Plan(aclENTRIES, existingACLEntries) ==
  IF aclENTRIES = <<>> THEN <<>>
  ELSE LET e == Head(aclENTRIES)
           IP == e.ip
           rest == Plan(Tail(aclENTRIES), existingACLEntries)
       IN IF IP \in DOMAIN existingACLEntries
          THEN IF /\ e.subnet = existingACLEntries[IP].subnet
                  /\ e.comment = existingACLEntries[IP].comment
               THEN rest
               ELSE <<[op |-> "update", ip |-> IP, subnet |-> e.subnet,
                       comment |-> e.comment,
                       id |-> existingACLEntries[IP].id]>> \o rest
          ELSE <<[op |-> "create", ip |-> IP, subnet |-> e.subnet,
                  comment |-> e.comment]>> \o rest

\* updateACLentries without the return of lines 125-126.
NothingToDo_Never(p) == FALSE

\* lines 125-126: nothing to write, return before the PATCH
NothingToDo(p) == Len(p) = 0

\* The server's side of the PATCH of lines 136-138: a create adds an entry
\* under a new id, an update replaces subnet and comment of the entry with
\* its id.
FreshId(json) == Len(json) + 1

RECURSIVE Apply(_, _)
Apply(json, ops) ==
  IF ops = <<>> THEN json
  ELSE LET o == Head(ops)
           next ==
             IF o.op = "create"
             THEN Append(json, [id |-> FreshId(json), ip |-> o.ip,
                                subnet |-> o.subnet, comment |-> o.comment])
             ELSE [k \in DOMAIN json |->
                     IF json[k].id = o.id
                     THEN [json[k] EXCEPT !.subnet = o.subnet,
                                          !.comment = o.comment]
                     ELSE json[k]]
       IN Apply(next, Tail(ops))

\* ------------------------------------------------------------- API calls
Call(api, svc, code) == [api |-> api, svc |-> svc, status_code |-> code]

\* check_r that lets every answer pass.
check_r_Ignore(r) == TRUE

\* check_r, lines 22-26: TRUE when the process goes on
check_r(r) == r.status_code = 200

\* The calls that getSVCver, getACLidFromName and the entries request
\* issue (lines 44-54 and 83-93), up to the first one that exits. svcVER is
\* "" at every call site (lines 158, 163), so getSVCver is always called.
\* version answers 200 with an active version, 200 without one, or an error.
Versions == {"active", "inactive", "error"}
Codes == {200, 500}

Lookup(svc, ver, aclCode, entCode) ==
  LET c1 == Call("version", svc, IF ver = "error" THEN 500 ELSE 200)
      c2 == Call("acl", svc, aclCode)
      c3 == Call("entries", svc, entCode)
  IN IF ~check_r(c1) \/ ver = "inactive" THEN <<c1>>
     ELSE IF ~check_r(c2) THEN <<c1, c2>>
     ELSE <<c1, c2, c3>>

\* TRUE when the three requests were answered and r.json() is at hand
Fetched(cs, ver) ==
  Len(cs) = 3 /\ check_r(cs[3]) /\ ver = "active"

getACLentries(svcID) ==
  /\ status = "running"
  /\ pc = "imported"
  /\ \E ver \in Versions, aclCode \in Codes, entCode \in Codes :
       LET cs == Lookup(svcID, ver, aclCode, entCode)
           ok == Fetched(cs, ver)
       IN /\ calls' = cs
          /\ op' = [fn |-> "getACLentries", svc |-> svcID, fetched |-> ok]
          /\ status' = IF ok THEN "running" ELSE "exit1"
          /\ entries' = IF ok THEN MergeAll(entries, live[svcID]) ELSE entries
  /\ payload' = <<>>
  /\ UNCHANGED <<live, args, pc, i>>

updateACLentries(svcID) ==
  /\ status = "running"
  /\ pc = "imported"
  /\ \E ver \in Versions, aclCode \in Codes, entCode \in Codes, patchCode \in Codes :
       LET cs == Lookup(svcID, ver, aclCode, entCode)
           ok == Fetched(cs, ver)
           p == IF ok THEN Plan(entries, Existing(live[svcID])) ELSE <<>>
           patch == Call("patch", svcID, patchCode)
       IN /\ op' = [fn |-> "updateACLentries", svc |-> svcID, fetched |-> ok]
          /\ payload' = p
          /\ IF ~ok
             THEN /\ calls' = cs
                  /\ status' = "exit1"
                  /\ live' = live
             ELSE IF NothingToDo(p)
             THEN /\ calls' = cs
                  /\ status' = "running"
                  /\ live' = live
             ELSE /\ calls' = Append(cs, patch)
                  /\ status' = IF check_r(patch) THEN "running" ELSE "exit1"
                  /\ live' = IF check_r(patch)
                             THEN [live EXCEPT ![svcID] = Apply(@, p)]
                             ELSE live
  /\ UNCHANGED <<entries, args, pc, i>>

\* The caller is done and the process ends normally (line 167).
Finish ==
  /\ status = "running"
  /\ pc = "imported"
  /\ status' = "exit0"
  /\ UNCHANGED <<live, entries, payload, calls, op, args, pc, i>>

\* ---------------------------------------------------------------- server
\* The entry lists an ACL may hold: at most MaxLive entries, one per IP,
\* with ids in order of creation.
LiveLists ==
  UNION { { [k \in 1..n |-> [id |-> k, ip |-> ips[k],
                             subnet |-> vs[k][1], comment |-> vs[k][2]]] :
            ips \in {f \in [1..n -> IPs] : \A a, b \in 1..n : f[a] = f[b] => a = b},
            vs \in [1..n -> RawValues] } :
          n \in 0..MaxLive }

ServerInit == live \in [Services -> LiveLists]

Init ==
  /\ ServerInit
  /\ entries = <<>>
  /\ payload = <<>>
  /\ calls = <<>>
  /\ op = [fn |-> "import", svc |-> "", fetched |-> FALSE]
  /\ status = "running"
  /\ args = <<>>
  /\ pc = "imported"
  /\ i = 0

Next ==
  \/ \E svcID \in Services : getACLentries(svcID)
  \/ \E svcID \in Services : updateACLentries(svcID)
  \/ Finish

Spec == Init /\ [][Next]_vars

\* --------------------------------------------------------------- __main__
\* lines 147-154
ArgLists == UNION { [1..n -> Services] : n \in 1..MaxArgs }

MainInit ==
  /\ ServerInit
  /\ entries = <<>>
  /\ payload = <<>>
  /\ calls = <<>>
  /\ op = [fn |-> "main", svc |-> "", fetched |-> FALSE]
  /\ status = "running"
  /\ args \in ArgLists
  /\ pc = "gather"
  /\ i = 1

\* lines 156-158: one iteration; the call of getACLentries is a comment
MainGather ==
  /\ pc = "gather"
  /\ i <= Len(args)
  /\ IF i = Len(args) THEN pc' = "update" /\ i' = 1
                      ELSE pc' = pc /\ i' = i + 1
  /\ UNCHANGED <<live, entries, payload, calls, op, status, args>>

\* lines 161-163: one iteration; the call of updateACLentries is a comment
MainUpdate ==
  /\ pc = "update"
  /\ i <= Len(args)
  /\ IF i = Len(args) THEN pc' = "done" /\ i' = 1
                      ELSE pc' = pc /\ i' = i + 1
  /\ UNCHANGED <<live, entries, payload, calls, op, status, args>>

\* lines 165-167
MainExit ==
  /\ pc = "done"
  /\ pc' = "exited"
  /\ status' = "exit0"
  /\ UNCHANGED <<live, entries, payload, calls, op, args, i>>

MainNext == MainGather \/ MainUpdate \/ MainExit

MainSpec == MainInit /\ [][MainNext]_vars

\* ================================================================ claims
Fns == {"getACLentries", "updateACLentries"}
Failed(c) == c.status_code # 200

\* The step is a call of fn that got r.json(): every function sets op, and
\* Finish, the one step to status 0, leaves it.
Ran(fn) == op'.fn = fn /\ op'.fetched /\ status' # "exit0"

\* C1. When one service reports an IP with subnet and comment null and
\* another reports the same IP with subnet 24 and a non-empty comment, the
\* consolidated record of the IP after merging both has subnet 24 and that
\* comment, whichever of the two is merged first.
C1_FillsPlaceholderInEitherOrder ==
  \A a, b \in Services : \A x \in DOMAIN live[a], y \in DOMAIN live[b] :
    LET ea == live[a][x]
        eb == live[b][y]
        bare(e) == e.subnet = Null /\ e.comment = Null
        full(e) == e.subnet = Num(24) /\ ~Falsy(e.comment)
        ba == MergeAll(MergeAll(<<>>, live[b]), live[a])
    IN (/\ op.fn = "getACLentries" /\ op.fetched /\ op.svc = b
        /\ entries = MergeAll(MergeAll(<<>>, live[a]), live[b])
        /\ ea.ip = eb.ip
        /\ (bare(ea) /\ full(eb)) \/ (full(ea) /\ bare(eb)))
       => /\ Get(entries, ea.ip).subnet = Num(24)
          /\ Get(entries, ea.ip).comment = (IF full(ea) THEN ea ELSE eb).comment
          /\ Get(ba, ea.ip) = Get(entries, ea.ip)

\* C2. Once the consolidated record of an IP holds a subnet other than the
\* sentinel "None" (the default 32 included) or a comment other than "None",
\* no later step changes that field, and the record stays in its place.
C2_FirstValueIsSticky ==
  [][\A k \in DOMAIN entries :
       /\ k \in DOMAIN entries'
       /\ entries'[k].ip = entries[k].ip
       /\ entries[k].subnet # Str("None") => entries'[k].subnet = entries[k].subnet
       /\ entries[k].comment # Str("None") => entries'[k].comment = entries[k].comment
    ]_vars

\* C2 witness: a service has just been merged whose entry of a recorded IP
\* carries another subnet and another comment than the recorded ones, none
\* of the four a placeholder.
C2_Witness ==
  /\ op.fn = "getACLentries" /\ op.fetched
  /\ \E k \in DOMAIN entries, m \in DOMAIN live[op.svc] :
       /\ live[op.svc][m].ip = entries[k].ip
       /\ ~Falsy(live[op.svc][m].subnet) /\ ~Falsy(live[op.svc][m].comment)
       /\ live[op.svc][m].subnet \notin {Num(32), entries[k].subnet}
       /\ live[op.svc][m].comment \notin {Str("None"), entries[k].comment}
       /\ entries[k].subnet # Num(32)
       /\ entries[k].comment # Str("None")

\* C3. The plan is idempotent: with the operations planned for a service
\* applied to it, the plan for the service is empty; and a service that
\* updateACLentries has just written has an empty plan.
C3_PlanIsIdempotent ==
  /\ \A s \in Services :
       Plan(entries, Existing(Apply(live[s], Plan(entries, Existing(live[s]))))) = <<>>
  /\ (op.fn = "updateACLentries" /\ op.fetched /\ status = "running")
       => Plan(entries, Existing(live[op.svc])) = <<>>

\* C3 witness: updateACLentries wrote a create and an update to a service.
C3_Witness ==
  /\ op.fn = "updateACLentries" /\ op.fetched /\ status = "running"
  /\ \E k, m \in DOMAIN payload : payload[k].op = "create" /\ payload[m].op = "update"

\* The operations C4 asks for, stated over the entry list of the service.
InLive(json, ip) == \E k \in DOMAIN json : json[k].ip = ip
LiveOf(json, ip) == json[CHOOSE k \in DOMAIN json : json[k].ip = ip]
PlanShape(c, json, p) ==
  LET Differs(e) == \/ ~InLive(json, e.ip)
                    \/ LiveOf(json, e.ip).subnet # e.subnet
                    \/ LiveOf(json, e.ip).comment # e.comment
      want == SelectSeq(c, Differs)
  IN /\ Len(p) = Len(want)
     /\ \A k \in DOMAIN p :
          /\ k \in DOMAIN want
          /\ p[k].ip = want[k].ip
          /\ p[k].subnet = want[k].subnet
          /\ p[k].comment = want[k].comment
          /\ IF InLive(json, p[k].ip)
             THEN /\ p[k].op = "update"
                  /\ p[k].id = LiveOf(json, p[k].ip).id
             ELSE /\ p[k].op = "create"
                  /\ DOMAIN p[k] = {"op", "ip", "subnet", "comment"}

\* C4. The payload updateACLentries builds holds, in the insertion order of
\* the consolidated dictionary, one create for every consolidated IP the
\* service lacks, one update with the entry's id for every consolidated IP
\* the service holds with another subnet or comment, and nothing else.
C4_PayloadIsTheDiff ==
  [][Ran("updateACLentries")
       => PlanShape(entries, live[op'.svc], payload')]_vars

\* C4 witness: a payload of two operations, a create and an update.
C4_Witness ==
  /\ op.fn = "updateACLentries" /\ op.fetched
  /\ Len(payload) = 2
  /\ payload[1].op # payload[2].op

\* C5. No payload names an IP that is not in the consolidated dictionary,
\* and no step changes an entry of a service whose IP is not in it.
C5_NoOperationOnUnknownIPs ==
  [][/\ \A k \in DOMAIN payload' : payload'[k].ip \in Keys(entries)
     /\ \A s \in Services : \A k \in DOMAIN live[s] :
          live[s][k].ip \notin Keys(entries)
            => k \in DOMAIN live'[s] /\ live'[s][k] = live[s][k]
    ]_vars

\* C5 witness: updateACLentries has written an update to a service that
\* holds an entry of an IP outside the consolidated dictionary.
C5_Witness ==
  /\ op.fn = "updateACLentries" /\ op.fetched /\ status = "running"
  /\ \E k \in DOMAIN payload : payload[k].op = "update"
  /\ \E k \in DOMAIN live[op.svc] : live[op.svc][k].ip \notin Keys(entries)

Patches == {k \in DOMAIN calls : calls[k].api = "patch"}

\* C6. updateACLentries issues a PATCH, one, to its service, exactly when it
\* got to build a payload and the payload is not empty; getACLentries issues
\* none.
C6_PatchIffPayload ==
  /\ (op.fn = "updateACLentries" /\ op.fetched)
       => /\ Patches # {} <=> payload # <<>>
          /\ Cardinality(Patches) <= 1
          /\ \A k \in Patches : calls[k].svc = op.svc /\ k = Len(calls)
  /\ ~(op.fn = "updateACLentries" /\ op.fetched) => Patches = {}

\* C6 witness: updateACLentries found a service that holds every
\* consolidated entry already, and issued no PATCH.
C6_Witness ==
  /\ op.fn = "updateACLentries" /\ op.fetched
  /\ entries # <<>>
  /\ payload = <<>>
  /\ Patches = {}

\* C7. A call that is not answered with 200 is the last call issued, and the
\* process has then exited with status 1, as it has when no version is
\* active; an exited process takes no step; the process exits with status 0
\* only when no call of the last function failed.
C7_FailFast ==
  /\ [](/\ \A k \in DOMAIN calls :
             Failed(calls[k]) => k = Len(calls) /\ status = "exit1"
        /\ (op.fn \in Fns /\ ~op.fetched) => status = "exit1"
        /\ status = "exit0" =>
             /\ \A k \in DOMAIN calls : ~Failed(calls[k])
             /\ op.fn \in Fns => op.fetched)
  /\ [][status = "running" /\ (status' = "exit1" => op'.fn \in Fns)]_vars

\* C7 witness: the PATCH failed and the process has exited with status 1.
C7_Witness ==
  /\ status = "exit1"
  /\ Len(calls) = 4
  /\ calls[4].api = "patch" /\ Failed(calls[4])

\* C8. When the first loop of __main__ is over, every service of --svcid has
\* been merged: the consolidated dictionary holds every IP of every one of
\* them, before any service is planned or written.
C8_AllMergedBeforeSync ==
  pc \in {"update", "done", "exited"}
    => \A k \in DOMAIN args : IPsOf(live[args[k]]) \subseteq Keys(entries)

\* C9. A merge of a service adds exactly the IPs of the service to the keys
\* of the consolidated dictionary, each new one with its subnet or 32 and
\* its comment or "None"; no other step changes the keys.
C9_KeysAreTheUnion ==
  [][LET merged == Ran("getACLentries")
         json == IF merged THEN live[op'.svc] ELSE <<>>
     IN /\ Keys(entries') = Keys(entries) \cup IPsOf(json)
        /\ Len(entries') = Cardinality(Keys(entries'))
        /\ \A k \in DOMAIN json :
             json[k].ip \notin Keys(entries) =>
               LET r == Get(entries', json[k].ip)
               IN /\ r.subnet = IF Falsy(json[k].subnet) THEN Num(32)
                                ELSE json[k].subnet
                  /\ r.comment = IF Falsy(json[k].comment) THEN Str("None")
                                 ELSE json[k].comment
    ]_vars

\* C9 witness: two services have been merged, the second one adding an IP
\* whose entry carries no subnet.
C9_Witness ==
  /\ op.fn = "getACLentries" /\ op.fetched
  /\ Len(entries) = 2
  /\ \E s \in Services \ {op.svc} : IPsOf(live[s]) = {entries[1].ip}
  /\ \E k \in DOMAIN live[op.svc] :
       /\ live[op.svc][k].ip = entries[2].ip
       /\ live[op.svc][k].subnet = Null
       /\ entries[2].subnet = Num(32)

\* C10. When a service is the only source merged, the plan for that same
\* service is empty.
C10_SelfSyncIsNoOp ==
  (/\ op.fn = "getACLentries" /\ op.fetched
   /\ entries = MergeAll(<<>>, live[op.svc]))
    => Plan(entries, Existing(live[op.svc])) = <<>>

====
